---- MODULE Spec2Model ----
(***************************************************************************)
(* Model of the two arXiv analyzers of this repository:                    *)
(*   ArxivAnalyzer        (src/example/arxiv_analyzer.py, Anthropic)        *)
(*   ArxivAnalyzerGemini  (src/example/arxiv_analyzer_gemini.py, Gemini)    *)
(* A paper is a Python dict, modelled as a function whose DOMAIN is the    *)
(* set of keys it carries; reading a key outside the DOMAIN is a KeyError. *)
(* Prompts are rendered as the strings the f-strings of the source build.  *)
(* The generation backend is a black box: every call returns a text or     *)
(* fails with a reason, chosen nondeterministically.                       *)
(***************************************************************************)
EXTENDS Integers, Sequences, FiniteSets, TLC

\* longest list of papers passed to an operation
MaxPapers == 3

Variants == {"claude", "gemini"}

(***************************************************************************)
(* Python values                                                           *)
(***************************************************************************)
\* Optional[str]: None is the empty tuple, a string s is <<s>>
None == <<>>
Some(s) == <<s>>

\* bool(x) of an Optional[str]: None and "" are falsy
Truthy(o) == o # None /\ o[1] # ""

\* Python's `a or b` on Optional[str]
PyOr(a, b) == IF Truthy(a) THEN a ELSE b

\* dict.get(key, default)
DictGet(d, k, default) == IF k \in DOMAIN d THEN d[k] ELSE default

\* exceptions
KeyError(k) == [type |-> "KeyError", arg |-> k]
ValueError(m) == [type |-> "ValueError", arg |-> m]
ProviderError(r) == [type |-> "ProviderError", arg |-> r]

\* str(e): a KeyError prints the repr of the missing key
Str(e) == IF e.type = "KeyError" THEN "'" \o e.arg \o "'" ELSE e.arg

\* sep.join(xs)
RECURSIVE Join(_, _)
Join(sep, xs) ==
    IF xs = <<>> THEN ""
    ELSE IF Len(xs) = 1 THEN xs[1]
    ELSE xs[1] \o sep \o Join(sep, Tail(xs))

\* the first key of `keys` (in evaluation order) that dict p lacks, or None
RECURSIVE FirstMissing(_, _)
FirstMissing(p, keys) ==
    IF keys = <<>> THEN None
    ELSE IF keys[1] \notin DOMAIN p THEN Some(keys[1])
    ELSE FirstMissing(p, Tail(keys))

\* the first missing key over a list of dicts, each read in order `keys`
RECURSIVE FirstMissingAll(_, _)
FirstMissingAll(ps, keys) ==
    IF ps = <<>> THEN None
    ELSE IF FirstMissing(ps[1], keys) # None THEN FirstMissing(ps[1], keys)
    ELSE FirstMissingAll(Tail(ps), keys)

\* dict.copy() followed by copy["analysis"] = a
WithAnalysis(p, a) ==
    [k \in (DOMAIN p) \cup {"analysis"} |-> IF k = "analysis" THEN a ELSE p[k]]

(***************************************************************************)
(* Inputs                                                                  *)
(***************************************************************************)
PaperA ==
    [title |-> "Attention", authors |-> <<"Ann", "Bo">>, summary |-> "We attend.",
     published |-> "2024-01-02", categories |-> <<"cs.CL", "cs.AI">>,
     arxiv_id |-> "2401.00001v1"]

\* a record that already went through an analysis
PaperB ==
    [title |-> "Bandits", authors |-> <<"Cy">>, summary |-> "We explore.",
     published |-> "2023-05-06", categories |-> <<"cs.LG">>,
     arxiv_id |-> "2305.00002v2", analysis |-> "old analysis"]

\* malformed: no title
PaperNoTitle ==
    [authors |-> <<"Di">>, summary |-> "Untitled work.",
     published |-> "2022-07-08", categories |-> <<"cs.DB">>,
     arxiv_id |-> "2207.00003v1"]

\* malformed: no authors
PaperNoAuthors ==
    [title |-> "Anonymous", summary |-> "Nobody wrote it.",
     published |-> "2021-09-10", categories |-> <<"cs.CR">>,
     arxiv_id |-> "2109.00004v1"]

PaperPool == {PaperA, PaperB, PaperNoTitle, PaperNoAuthors}

\* the keys search_papers gives every record and the prompts read
WellFormed(p) ==
    {"title", "authors", "summary", "published", "categories"} \subseteq DOMAIN p

PaperSeqs == UNION {[1..n -> PaperPool] : n \in 0..MaxPapers}

AnalysisTypes == {"summary", "key_findings", "methodology", "critique", "sentiment"}

CustomPrompts == {None, Some(""), Some("Explain it to a child.")}

\* what the backend may answer to one call
Outcomes ==
    {[ok |-> TRUE, text |-> "T1"], [ok |-> TRUE, text |-> "T2"],
     [ok |-> FALSE, reason |-> "quota exceeded"]}

\* constructor argument and environment variable
ApiKeyArgs == {None, Some(""), Some("sk-arg")}
EnvValues == {None, Some(""), Some("sk-env")}


(***************************************************************************)
(* ArxivAnalyzer: prompt construction                                    *)
(***************************************************************************)
\* the keys the f-string of analyze_paper reads, in evaluation order
ArxivAnalyzer_paper_content_keys ==
    <<"title", "authors", "published", "categories", "summary">>

ArxivAnalyzer_paper_content(paper) ==
    "\nTitle: " \o paper["title"]
    \o "\n\nAuthors: " \o Join(", ", paper["authors"])
    \o "\n\nPublished: " \o paper["published"]
    \o "\n\nCategories: " \o Join(", ", paper["categories"])
    \o "\n\nAbstract:\n" \o paper["summary"] \o "\n"

ArxivAnalyzer_prompts ==
    [summary |-> "Please provide a concise summary of this paper, highlighting the main contributions and findings.",
     key_findings |-> "What are the key findings and contributions of this paper? List them clearly.",
     methodology |-> "Analyze the methodology used in this paper. What approaches did the authors take?",
     critique |-> "Provide a balanced critique of this paper, discussing both strengths and potential limitations."]

\* custom_prompt or prompts.get(analysis_type, prompts["summary"])
ArxivAnalyzer_analysis_prompt(analysis_type, custom_prompt) ==
    PyOr(custom_prompt,
         Some(DictGet(ArxivAnalyzer_prompts, analysis_type, ArxivAnalyzer_prompts["summary"])))[1]

ArxivAnalyzer_full_prompt(paper, analysis_type, custom_prompt) ==
    ArxivAnalyzer_paper_content(paper) \o "\n\n"
    \o ArxivAnalyzer_analysis_prompt(analysis_type, custom_prompt)

\* the keys the loop of compare_papers reads from each paper
ArxivAnalyzer_compare_keys == <<"title", "authors", "summary">>

RECURSIVE ArxivAnalyzer_papers_text(_, _)
ArxivAnalyzer_papers_text(papers, n) ==
    IF n = 0 THEN ""
    ELSE ArxivAnalyzer_papers_text(papers, n - 1)
         \o "\nPaper " \o ToString(n) \o ":\nTitle: " \o papers[n]["title"]
         \o "\nAuthors: " \o Join(", ", papers[n]["authors"])
         \o "\nAbstract: " \o papers[n]["summary"] \o "\n\n---\n"

ArxivAnalyzer_compare_prompt(papers) ==
    "Here are " \o ToString(Len(papers)) \o " research papers. Please compare them by:\n\n"
    \o "1. Identifying common themes and research directions\n"
    \o "2. Highlighting key differences in approach or findings\n"
    \o "3. Discussing how these papers relate to each other\n"
    \o "4. Noting any complementary or contradictory findings\n\n"
    \o "Papers:\n" \o ArxivAnalyzer_papers_text(papers, Len(papers))
    \o "\n\nPlease provide a comparative analysis:"

(***************************************************************************)
(* ArxivAnalyzerGemini: prompt construction                                    *)
(***************************************************************************)
\* the keys the f-string of analyze_paper reads, in evaluation order
ArxivAnalyzerGemini_paper_content_keys ==
    <<"title", "authors", "published", "categories", "summary">>

ArxivAnalyzerGemini_paper_content(paper) ==
    "\nTitle: " \o paper["title"]
    \o "\n\nAuthors: " \o Join(", ", paper["authors"])
    \o "\n\nPublished: " \o paper["published"]
    \o "\n\nCategories: " \o Join(", ", paper["categories"])
    \o "\n\nAbstract:\n" \o paper["summary"] \o "\n"

ArxivAnalyzerGemini_prompts ==
    [summary |-> "Please provide a concise summary of this paper, highlighting the main contributions and findings.",
     key_findings |-> "What are the key findings and contributions of this paper? List them clearly.",
     methodology |-> "Analyze the methodology used in this paper. What approaches did the authors take?",
     critique |-> "Provide a balanced critique of this paper, discussing both strengths and potential limitations."]

\* a known analysis_type taking precedence over custom_prompt
ArxivAnalyzerGemini_analysis_prompt_mut(analysis_type, custom_prompt) ==
    IF analysis_type \in DOMAIN ArxivAnalyzerGemini_prompts
    THEN ArxivAnalyzerGemini_prompts[analysis_type]
    ELSE PyOr(custom_prompt, Some(ArxivAnalyzerGemini_prompts["summary"]))[1]

\* custom_prompt or prompts.get(analysis_type, prompts["summary"])
ArxivAnalyzerGemini_analysis_prompt(analysis_type, custom_prompt) ==
    PyOr(custom_prompt,
         Some(DictGet(ArxivAnalyzerGemini_prompts, analysis_type, ArxivAnalyzerGemini_prompts["summary"])))[1]

ArxivAnalyzerGemini_full_prompt(paper, analysis_type, custom_prompt) ==
    ArxivAnalyzerGemini_paper_content(paper) \o "\n\n"
    \o ArxivAnalyzerGemini_analysis_prompt(analysis_type, custom_prompt)

\* the keys the loop of compare_papers reads from each paper
ArxivAnalyzerGemini_compare_keys == <<"title", "authors", "summary">>

RECURSIVE ArxivAnalyzerGemini_papers_text(_, _)
ArxivAnalyzerGemini_papers_text(papers, n) ==
    IF n = 0 THEN ""
    ELSE ArxivAnalyzerGemini_papers_text(papers, n - 1)
         \o "\nPaper " \o ToString(n) \o ":\nTitle: " \o papers[n]["title"]
         \o "\nAuthors: " \o Join(", ", papers[n]["authors"])
         \o "\nAbstract: " \o papers[n]["summary"] \o "\n\n---\n"

ArxivAnalyzerGemini_compare_prompt(papers) ==
    "Here are " \o ToString(Len(papers)) \o " research papers. Please compare them by:\n\n"
    \o "1. Identifying common themes and research directions\n"
    \o "2. Highlighting key differences in approach or findings\n"
    \o "3. Discussing how these papers relate to each other\n"
    \o "4. Noting any complementary or contradictory findings\n\n"
    \o "Papers:\n" \o ArxivAnalyzerGemini_papers_text(papers, Len(papers))
    \o "\n\nPlease provide a comparative analysis:"

\* generation configuration sent with a request
ArxivAnalyzer_analyze_config ==
    [model |-> "claude-sonnet-4-20250514", max_tokens |-> 2000]

ArxivAnalyzer_compare_config ==
    [model |-> "claude-sonnet-4-20250514", max_tokens |-> 3000]

ArxivAnalyzerGemini_analyze_config(temperature) ==
    [temperature |-> temperature, top_p |-> "0.95", top_k |-> 40,
     max_output_tokens |-> 2048]

ArxivAnalyzerGemini_compare_config(temperature) ==
    [temperature |-> temperature, top_p |-> "0.95", top_k |-> 40,
     max_output_tokens |-> 3072]

\* generate_content(prompt) without generation_config
ArxivAnalyzerGemini_default_config == [default |-> TRUE]

\* default of the temperature parameter
DefaultTemperature == "0.7"

\* defaults of max_concepts and num_questions
DefaultMaxConcepts == 10
DefaultNumQuestions == 5

\* the keys the comprehensions of extract_key_concepts and
\* generate_research_questions read from each paper
ArxivAnalyzerGemini_abstract_keys == <<"title", "summary">>

RECURSIVE ArxivAnalyzerGemini_abstracts(_)
ArxivAnalyzerGemini_abstracts(papers) ==
    IF papers = <<>> THEN <<>>
    ELSE <<"Paper: " \o papers[1]["title"] \o "\n" \o papers[1]["summary"]>>
         \o ArxivAnalyzerGemini_abstracts(Tail(papers))

ArxivAnalyzerGemini_concepts_prompt(papers, max_concepts) ==
    "Analyze these research paper abstracts and extract the "
    \o ToString(max_concepts) \o " most important \n"
    \o "technical concepts, methods, or themes. For each concept, provide a brief explanation.\n\n"
    \o "Format your response as a numbered list:\n"
    \o "1. Concept Name: Brief explanation\n"
    \o "2. Concept Name: Brief explanation\n"
    \o "...\n\nAbstracts:\n"
    \o Join("\n\n", ArxivAnalyzerGemini_abstracts(papers)) \o "\n"

RECURSIVE ArxivAnalyzerGemini_papers_summary(_)
ArxivAnalyzerGemini_papers_summary(papers) ==
    IF papers = <<>> THEN <<>>
    ELSE <<"Title: " \o papers[1]["title"] \o "\nAbstract: " \o papers[1]["summary"]>>
         \o ArxivAnalyzerGemini_papers_summary(Tail(papers))

ArxivAnalyzerGemini_questions_prompt(papers, num_questions) ==
    "Based on these research papers, generate " \o ToString(num_questions)
    \o " interesting and \n"
    \o "unexplored research questions that could advance this field. Focus on gaps, contradictions, \n"
    \o "or natural extensions of the current work.\n\nPapers:\n"
    \o Join("\n\n", ArxivAnalyzerGemini_papers_summary(papers))
    \o "\n\nGenerate " \o ToString(num_questions) \o " research questions:"


(***************************************************************************)
(* State                                                                   *)
(***************************************************************************)
VARIABLES
    constructed,      \* constructed[v]: an analyzer object of variant v exists
    api_key,          \* api_key[v]: self.api_key as the last constructor set it
    ctor_error,       \* ctor_error[v]: what the last failed constructor raised
    op,               \* the method being run, "none" between calls
    papers,           \* the caller's list of paper dicts (the argument)
    analysis_type,    \* argument analysis_type
    custom_prompt,    \* argument custom_prompt
    cur,              \* the variant whose method is running
    pc,               \* "idle", "run", "call" (blocked in the backend), "done"
    i,                \* number of papers the batch loop has finished
    analyzed_papers,  \* the local list of batch_analyze_papers
    inflight,         \* requests sent to the backend and not yet answered
    script,           \* the backend's answers of this round, by call number
    calls,            \* calls[v]: the requests variant v sent in this round
    ret               \* ret[v]: what variant v's method returned or raised

vars ==
    <<constructed, api_key, ctor_error, op, papers, analysis_type, custom_prompt,
      cur, pc, i, analyzed_papers, inflight, script, calls, ret>>

NoResult == [status |-> "none"]
Returned(x) == [status |-> "returned", value |-> x]
Raised(e) == [status |-> "raised", exc |-> e]

\* the methods each class defines
Operations(v) ==
    IF v = "claude"
    THEN {"analyze_paper", "batch_analyze_papers", "compare_papers"}
    ELSE {"analyze_paper", "batch_analyze_papers", "compare_papers",
          "extract_key_concepts", "generate_research_questions"}

Init ==
    /\ constructed = [v \in Variants |-> FALSE]
    /\ api_key = [v \in Variants |-> None]
    /\ ctor_error = [v \in Variants |-> None]
    /\ op = "none"
    /\ papers = <<>>
    /\ analysis_type = "summary"
    /\ custom_prompt = None
    /\ cur = "none"
    /\ pc = "idle"
    /\ i = 0
    /\ analyzed_papers = <<>>
    /\ inflight = <<>>
    /\ script = <<>>
    /\ calls = [v \in Variants |-> <<>>]
    /\ ret = [v \in Variants |-> NoResult]

(***************************************************************************)
(* Constructors                                                            *)
(***************************************************************************)
\* self.api_key = api_key or os.getenv(...); if not self.api_key: raise
CheckedKey(api_key_arg, env) ==
    LET k == PyOr(api_key_arg, env)
    IN  IF ~Truthy(k)
        THEN [raise |-> TRUE, key |-> k]
        ELSE [raise |-> FALSE, key |-> k]

ArxivAnalyzer_check_key(api_key_arg, env) == CheckedKey(api_key_arg, env)

\* the constructor without its check
ArxivAnalyzerGemini_check_key_mut(api_key_arg, env) ==
    [raise |-> FALSE, key |-> PyOr(api_key_arg, env)]

ArxivAnalyzerGemini_check_key(api_key_arg, env) == CheckedKey(api_key_arg, env)

\* self.api_key is assigned before the check; a constructor that raises
\* leaves no object behind
Construct(v, r, message) ==
    /\ pc = "idle"
    /\ ~constructed[v]
    /\ api_key' = [api_key EXCEPT ![v] = r.key]
    /\ constructed' = [constructed EXCEPT ![v] = ~r.raise]
    /\ ctor_error' = [ctor_error EXCEPT ![v] =
                         IF r.raise THEN Some(ValueError(message)) ELSE None]
    /\ UNCHANGED <<op, papers, analysis_type, custom_prompt, cur, pc, i,
                   analyzed_papers, inflight, script, calls, ret>>

ArxivAnalyzer_init(api_key_arg, env) ==
    Construct("claude", ArxivAnalyzer_check_key(api_key_arg, env),
              "ANTHROPIC_API_KEY must be set in environment or passed to constructor")

ArxivAnalyzerGemini_init(api_key_arg, env) ==
    Construct("gemini", ArxivAnalyzerGemini_check_key(api_key_arg, env),
              "GOOGLE_API_KEY must be set in environment or passed to constructor")

(***************************************************************************)
(* The caller                                                              *)
(***************************************************************************)
\* the caller invokes method o of the analyzer of variant v
Invoke(v, o, ps, t, c) ==
    /\ pc = "idle"
    /\ constructed[v]
    /\ o \in Operations(v)
    /\ op' = o
    /\ papers' = ps
    /\ analysis_type' = t
    /\ custom_prompt' = c
    /\ cur' = v
    /\ pc' = "run"
    /\ i' = 0
    /\ analyzed_papers' = <<>>
    /\ UNCHANGED <<constructed, api_key, ctor_error, inflight, script, calls, ret>>

\* the kinds passed to batch_analyze_papers
BatchTypes == {"key_findings", "sentiment"}

CallAnalyze ==
    /\ pc = "idle"
    /\ \E v \in Variants, p \in PaperPool, t \in AnalysisTypes, c \in CustomPrompts :
          Invoke(v, "analyze_paper", <<p>>, t, c)

CallBatch ==
    /\ pc = "idle"
    /\ \E v \in Variants, ps \in PaperSeqs, t \in BatchTypes :
          Invoke(v, "batch_analyze_papers", ps, t, None)

CallMulti ==
    /\ pc = "idle"
    /\ \E v \in Variants, ps \in PaperSeqs :
       \E o \in Operations(v) \ {"analyze_paper", "batch_analyze_papers"} :
          Invoke(v, o, ps, "summary", None)

\* the caller runs the same method with the same arguments on the other
\* analyzer, whose backend answers call k as the first one's did
CallOther(v) ==
    /\ pc = "done"
    /\ constructed[v]
    /\ ret[v] = NoResult
    /\ op \in Operations(v)
    /\ cur' = v
    /\ pc' = "run"
    /\ i' = 0
    /\ analyzed_papers' = <<>>
    /\ UNCHANGED <<constructed, api_key, ctor_error, op, papers, analysis_type,
                   custom_prompt, inflight, script, calls, ret>>

\* the caller drops the results and is ready for the next round
Forget ==
    /\ pc = "done"
    /\ op' = "none"
    /\ papers' = <<>>
    /\ analysis_type' = "summary"
    /\ custom_prompt' = None
    /\ cur' = "none"
    /\ pc' = "idle"
    /\ i' = 0
    /\ analyzed_papers' = <<>>
    /\ script' = <<>>
    /\ calls' = [v \in Variants |-> <<>>]
    /\ ret' = [v \in Variants |-> NoResult]
    /\ UNCHANGED <<constructed, api_key, ctor_error, inflight>>

(***************************************************************************)
(* Steps of a method                                                       *)
(***************************************************************************)
\* what a stretch of code between two blocking points comes to
StepReturn(x) == [kind |-> "return", value |-> x]
StepRaise(e) == [kind |-> "raise", exc |-> e]
StepCall(prompt, config) == [kind |-> "call", request |-> [prompt |-> prompt, config |-> config]]
\* the loop turn ends: the local list, and the caller's list as the turn left it
StepNext(analyzed, ps) == [kind |-> "next", analyzed |-> analyzed, papers |-> ps]

\* the running method moves by `step`; `answered` when it consumed an answer
Advance(step, answered) ==
    /\ pc' = CASE step.kind = "call" -> "call"
               [] step.kind = "next" -> "run"
               [] OTHER -> "done"
    /\ ret' = CASE step.kind = "return" -> [ret EXCEPT ![cur] = Returned(step.value)]
                [] step.kind = "raise" -> [ret EXCEPT ![cur] = Raised(step.exc)]
                [] OTHER -> ret
    /\ calls' = IF step.kind = "call"
                THEN [calls EXCEPT ![cur] = Append(@, step.request)]
                ELSE calls
    /\ inflight' = LET rest == IF answered THEN Tail(inflight) ELSE inflight
                   IN  IF step.kind = "call" THEN Append(rest, step.request) ELSE rest
    /\ analyzed_papers' = IF step.kind = "next" THEN step.analyzed ELSE analyzed_papers
    /\ i' = IF step.kind = "next" THEN i + 1 ELSE i
    /\ papers' = IF step.kind = "next" THEN step.papers ELSE papers
    /\ UNCHANGED <<constructed, api_key, ctor_error, op, analysis_type,
                   custom_prompt, cur>>

\* code that runs up to its next blocking point
Run(v, o, step) ==
    /\ cur = v
    /\ op = o
    /\ pc = "run"
    /\ Advance(step, FALSE)
    /\ UNCHANGED script

\* the backend answers the call in flight: call k of this round gets the
\* answer `script` holds for k, or a fresh one
Resume(v, o, outcome, step) ==
    /\ pc = "call"
    /\ cur = v
    /\ op = o
    /\ LET k == Len(calls[v])
       IN  IF k <= Len(script)
           THEN outcome = script[k] /\ UNCHANGED script
           ELSE script' = Append(script, outcome)
    /\ Advance(step, TRUE)


(***************************************************************************)
(* ArxivAnalyzer: methods                                                *)
(***************************************************************************)
\* analyze_paper up to the backend call
ArxivAnalyzer_analyze_paper_send(paper, t, c) ==
    LET m == FirstMissing(paper, ArxivAnalyzer_paper_content_keys)
    IN  IF m # None
        THEN StepRaise(KeyError(m[1]))
        ELSE StepCall(ArxivAnalyzer_full_prompt(paper, t, c), ArxivAnalyzer_analyze_config)

\* analyze_paper trying again after a failure
ArxivAnalyzer_analyze_paper_receive_mut(outcome) ==
    IF outcome.ok
    THEN StepReturn(outcome.text)
    ELSE StepCall("again", ArxivAnalyzer_analyze_config)

\* analyze_paper from the backend's answer on
ArxivAnalyzer_analyze_paper_receive(outcome) ==
    IF outcome.ok
    THEN StepReturn(outcome.text)
    ELSE StepRaise(ProviderError(outcome.reason))

\* lines 163-165 with `analyzed_paper = paper` for the copy: the dict of the
\* caller's list gets the analysis
ArxivAnalyzer_attach_mut(acc, ps, n, a) ==
    StepNext(Append(acc, WithAnalysis(ps[n + 1], a)),
             [ps EXCEPT ![n + 1] = WithAnalysis(ps[n + 1], a)])

\* lines 163-165: the analysis goes into a copy of the dict, the copy into
\* the local list; the dicts of the caller's list are not written
ArxivAnalyzer_attach(acc, ps, n, a) ==
    StepNext(Append(acc, WithAnalysis(ps[n + 1], a)), ps)

\* lines 161-165: no handler, an exception of analyze_paper leaves the loop
ArxivAnalyzer_batch_collect(acc, ps, n, r) ==
    IF r.kind = "raise"
    THEN r
    ELSE ArxivAnalyzer_attach(acc, ps, n, r.value)

\* one turn of the for loop of batch_analyze_papers, up to the backend call
ArxivAnalyzer_batch_analyze_papers_loop(ps, n, acc, t) ==
    IF n = Len(ps)
    THEN StepReturn(acc)
    ELSE IF "title" \notin DOMAIN ps[n + 1]
    THEN StepRaise(KeyError("title"))
    ELSE LET r == ArxivAnalyzer_analyze_paper_send(ps[n + 1], t, None)
         IN  IF r.kind = "call"
             THEN r
             ELSE ArxivAnalyzer_batch_collect(acc, ps, n, r)

\* the rest of the turn, from the backend's answer on
ArxivAnalyzer_batch_analyze_papers_resume(ps, n, acc, outcome) ==
    ArxivAnalyzer_batch_collect(acc, ps, n, ArxivAnalyzer_analyze_paper_receive(outcome))

\* compare_papers refusing only the empty list
ArxivAnalyzer_compare_papers_send_mut(ps) ==
    IF Len(ps) < 1
    THEN StepRaise(ValueError("Need at least 2 papers to compare"))
    ELSE LET m == FirstMissingAll(ps, ArxivAnalyzer_compare_keys)
         IN  IF m # None
             THEN StepRaise(KeyError(m[1]))
             ELSE StepCall(ArxivAnalyzer_compare_prompt(ps), ArxivAnalyzer_compare_config)

\* compare_papers up to the backend call
ArxivAnalyzer_compare_papers_send(ps) ==
    IF Len(ps) < 2
    THEN StepRaise(ValueError("Need at least 2 papers to compare"))
    ELSE LET m == FirstMissingAll(ps, ArxivAnalyzer_compare_keys)
         IN  IF m # None
             THEN StepRaise(KeyError(m[1]))
             ELSE StepCall(ArxivAnalyzer_compare_prompt(ps), ArxivAnalyzer_compare_config)

\* compare_papers from the backend's answer on
ArxivAnalyzer_compare_papers_receive(outcome) ==
    IF outcome.ok
    THEN StepReturn(outcome.text)
    ELSE StepRaise(ProviderError(outcome.reason))

ArxivAnalyzer_analyze_paper ==
    Run("claude", "analyze_paper",
        ArxivAnalyzer_analyze_paper_send(papers[1], analysis_type, custom_prompt))

ArxivAnalyzer_analyze_paper_answered(outcome) ==
    Resume("claude", "analyze_paper", outcome,
           ArxivAnalyzer_analyze_paper_receive(outcome))

ArxivAnalyzer_batch_analyze_papers ==
    Run("claude", "batch_analyze_papers",
        ArxivAnalyzer_batch_analyze_papers_loop(papers, i, analyzed_papers, analysis_type))

ArxivAnalyzer_batch_analyze_papers_answered(outcome) ==
    Resume("claude", "batch_analyze_papers", outcome,
           ArxivAnalyzer_batch_analyze_papers_resume(papers, i, analyzed_papers, outcome))

ArxivAnalyzer_compare_papers ==
    Run("claude", "compare_papers",
        ArxivAnalyzer_compare_papers_send(papers))

ArxivAnalyzer_compare_papers_answered(outcome) ==
    Resume("claude", "compare_papers", outcome,
           ArxivAnalyzer_compare_papers_receive(outcome))

(***************************************************************************)
(* ArxivAnalyzerGemini: methods                                                *)
(***************************************************************************)
\* analyze_paper up to the backend call
ArxivAnalyzerGemini_analyze_paper_send(paper, t, c, temperature) ==
    LET m == FirstMissing(paper, ArxivAnalyzerGemini_paper_content_keys)
    IN  IF m # None
        THEN StepRaise(KeyError(m[1]))
        ELSE StepCall(ArxivAnalyzerGemini_full_prompt(paper, t, c), ArxivAnalyzerGemini_analyze_config(temperature))

\* analyze_paper from the backend's answer on
ArxivAnalyzerGemini_analyze_paper_receive(outcome) ==
    IF outcome.ok
    THEN StepReturn(outcome.text)
    ELSE StepRaise(ProviderError(outcome.reason))

\* lines 174-176 and 179-181: the analysis or the error text goes into a copy
\* of the dict, the copy into the local list; the dicts of the caller's list
\* are not written
ArxivAnalyzerGemini_attach(acc, ps, n, a) ==
    StepNext(Append(acc, WithAnalysis(ps[n + 1], a)), ps)

\* lines 174-181: the try body's tail, or the except clause
ArxivAnalyzerGemini_batch_collect(acc, ps, n, r) ==
    IF r.kind = "raise"
    THEN ArxivAnalyzerGemini_attach(acc, ps, n, "Error: " \o Str(r.exc))
    ELSE ArxivAnalyzerGemini_attach(acc, ps, n, r.value)

\* the loop walking the list from its end
ArxivAnalyzerGemini_batch_analyze_papers_loop_mut(ps, n, acc, t, temperature) ==
    IF n = Len(ps)
    THEN StepReturn(acc)
    ELSE IF "title" \notin DOMAIN ps[Len(ps) - n]
    THEN StepRaise(KeyError("title"))
    ELSE LET r == ArxivAnalyzerGemini_analyze_paper_send(ps[Len(ps) - n], t, None, temperature)
         IN  IF r.kind = "call"
             THEN r
             ELSE ArxivAnalyzerGemini_batch_collect(acc, ps, Len(ps) - n - 1, r)

\* one turn of the for loop of batch_analyze_papers, up to the backend call
ArxivAnalyzerGemini_batch_analyze_papers_loop(ps, n, acc, t, temperature) ==
    IF n = Len(ps)
    THEN StepReturn(acc)
    ELSE IF "title" \notin DOMAIN ps[n + 1]
    THEN StepRaise(KeyError("title"))
    ELSE LET r == ArxivAnalyzerGemini_analyze_paper_send(ps[n + 1], t, None, temperature)
         IN  IF r.kind = "call"
             THEN r
             ELSE ArxivAnalyzerGemini_batch_collect(acc, ps, n, r)

\* the rest of the turn, from the backend's answer on
ArxivAnalyzerGemini_batch_analyze_papers_resume(ps, n, acc, outcome) ==
    ArxivAnalyzerGemini_batch_collect(acc, ps, n, ArxivAnalyzerGemini_analyze_paper_receive(outcome))

\* compare_papers up to the backend call
ArxivAnalyzerGemini_compare_papers_send(ps, temperature) ==
    IF Len(ps) < 2
    THEN StepRaise(ValueError("Need at least 2 papers to compare"))
    ELSE LET m == FirstMissingAll(ps, ArxivAnalyzerGemini_compare_keys)
         IN  IF m # None
             THEN StepRaise(KeyError(m[1]))
             ELSE StepCall(ArxivAnalyzerGemini_compare_prompt(ps), ArxivAnalyzerGemini_compare_config(temperature))

\* compare_papers from the backend's answer on
ArxivAnalyzerGemini_compare_papers_receive(outcome) ==
    IF outcome.ok
    THEN StepReturn(outcome.text)
    ELSE StepRaise(ProviderError(outcome.reason))

ArxivAnalyzerGemini_analyze_paper ==
    Run("gemini", "analyze_paper",
        ArxivAnalyzerGemini_analyze_paper_send(papers[1], analysis_type, custom_prompt, DefaultTemperature))

ArxivAnalyzerGemini_analyze_paper_answered(outcome) ==
    Resume("gemini", "analyze_paper", outcome,
           ArxivAnalyzerGemini_analyze_paper_receive(outcome))

ArxivAnalyzerGemini_batch_analyze_papers ==
    Run("gemini", "batch_analyze_papers",
        ArxivAnalyzerGemini_batch_analyze_papers_loop(papers, i, analyzed_papers, analysis_type, DefaultTemperature))

ArxivAnalyzerGemini_batch_analyze_papers_answered(outcome) ==
    Resume("gemini", "batch_analyze_papers", outcome,
           ArxivAnalyzerGemini_batch_analyze_papers_resume(papers, i, analyzed_papers, outcome))

ArxivAnalyzerGemini_compare_papers ==
    Run("gemini", "compare_papers",
        ArxivAnalyzerGemini_compare_papers_send(papers, DefaultTemperature))

ArxivAnalyzerGemini_compare_papers_answered(outcome) ==
    Resume("gemini", "compare_papers", outcome,
           ArxivAnalyzerGemini_compare_papers_receive(outcome))

\* extract_key_concepts with the check of compare_papers
ArxivAnalyzerGemini_extract_key_concepts_send_mut(ps, max_concepts) ==
    IF Len(ps) < 2
    THEN StepRaise(ValueError("Need at least 2 papers to compare"))
    ELSE StepCall(ArxivAnalyzerGemini_concepts_prompt(ps, max_concepts),
                  ArxivAnalyzerGemini_default_config)

\* extract_key_concepts up to the backend call: no check of len(papers)
ArxivAnalyzerGemini_extract_key_concepts_send(ps, max_concepts) ==
    LET m == FirstMissingAll(ps, ArxivAnalyzerGemini_abstract_keys)
    IN  IF m # None
        THEN StepRaise(KeyError(m[1]))
        ELSE StepCall(ArxivAnalyzerGemini_concepts_prompt(ps, max_concepts),
                      ArxivAnalyzerGemini_default_config)

ArxivAnalyzerGemini_extract_key_concepts_receive(outcome) ==
    IF outcome.ok
    THEN StepReturn(outcome.text)
    ELSE StepRaise(ProviderError(outcome.reason))

\* generate_research_questions up to the backend call: no check of len(papers)
ArxivAnalyzerGemini_generate_research_questions_send(ps, num_questions) ==
    LET m == FirstMissingAll(ps, ArxivAnalyzerGemini_abstract_keys)
    IN  IF m # None
        THEN StepRaise(KeyError(m[1]))
        ELSE StepCall(ArxivAnalyzerGemini_questions_prompt(ps, num_questions),
                      ArxivAnalyzerGemini_default_config)

ArxivAnalyzerGemini_generate_research_questions_receive(outcome) ==
    IF outcome.ok
    THEN StepReturn(outcome.text)
    ELSE StepRaise(ProviderError(outcome.reason))

ArxivAnalyzerGemini_extract_key_concepts ==
    Run("gemini", "extract_key_concepts",
        ArxivAnalyzerGemini_extract_key_concepts_send(papers, DefaultMaxConcepts))

ArxivAnalyzerGemini_extract_key_concepts_answered(outcome) ==
    Resume("gemini", "extract_key_concepts", outcome,
           ArxivAnalyzerGemini_extract_key_concepts_receive(outcome))

ArxivAnalyzerGemini_generate_research_questions ==
    Run("gemini", "generate_research_questions",
        ArxivAnalyzerGemini_generate_research_questions_send(papers, DefaultNumQuestions))

ArxivAnalyzerGemini_generate_research_questions_answered(outcome) ==
    Resume("gemini", "generate_research_questions", outcome,
           ArxivAnalyzerGemini_generate_research_questions_receive(outcome))

(***************************************************************************)
(* Specification                                                           *)
(***************************************************************************)
Next ==
    \/ \E a \in ApiKeyArgs, e \in EnvValues : ArxivAnalyzer_init(a, e)
    \/ \E a \in ApiKeyArgs, e \in EnvValues : ArxivAnalyzerGemini_init(a, e)
    \/ CallAnalyze
    \/ CallBatch
    \/ CallMulti
    \/ \E v \in Variants : CallOther(v)
    \/ Forget
    \/ ArxivAnalyzer_analyze_paper
    \/ \E o \in Outcomes : ArxivAnalyzer_analyze_paper_answered(o)
    \/ ArxivAnalyzer_batch_analyze_papers
    \/ \E o \in Outcomes : ArxivAnalyzer_batch_analyze_papers_answered(o)
    \/ ArxivAnalyzer_compare_papers
    \/ \E o \in Outcomes : ArxivAnalyzer_compare_papers_answered(o)
    \/ ArxivAnalyzerGemini_analyze_paper
    \/ \E o \in Outcomes : ArxivAnalyzerGemini_analyze_paper_answered(o)
    \/ ArxivAnalyzerGemini_batch_analyze_papers
    \/ \E o \in Outcomes : ArxivAnalyzerGemini_batch_analyze_papers_answered(o)
    \/ ArxivAnalyzerGemini_compare_papers
    \/ \E o \in Outcomes : ArxivAnalyzerGemini_compare_papers_answered(o)
    \/ ArxivAnalyzerGemini_extract_key_concepts
    \/ \E o \in Outcomes : ArxivAnalyzerGemini_extract_key_concepts_answered(o)
    \/ ArxivAnalyzerGemini_generate_research_questions
    \/ \E o \in Outcomes : ArxivAnalyzerGemini_generate_research_questions_answered(o)

Spec == Init /\ [][Next]_vars


(***************************************************************************)
(* Properties                                                              *)
(***************************************************************************)
Batch == "batch_analyze_papers"

AllWellFormed == \A k \in 1..Len(papers) : WellFormed(papers[k])

\* C1: for every list of well-formed papers and every pattern of backend
\* successes and failures, a finished batch_analyze_papers has returned a list
\* with one entry per input paper, in input order, each entry being the input
\* record plus a populated analysis field.
C1_OneEntryPerPaper ==
    \A v \in Variants :
        (op = Batch /\ ret[v] # NoResult /\ AllWellFormed)
        => /\ ret[v].status = "returned"
           /\ Len(ret[v].value) = Len(papers)
           /\ \A k \in 1..Len(papers) :
                 /\ "analysis" \in DOMAIN ret[v].value[k]
                 /\ ret[v].value[k] = WithAnalysis(papers[k], ret[v].value[k].analysis)

\* C2: when the backend fails for an item of a batch of well-formed papers,
\* batch_analyze_papers does not raise: the item's analysis is exactly
\* "Error: " followed by the failure reason, and the loop goes on to the end
\* of the list.
C2_FailureBecomesSentinel ==
    \A v \in Variants :
        (op = Batch /\ cur = v /\ AllWellFormed)
        => /\ ret[v].status # "raised"
           /\ ret[v].status = "returned" => Len(ret[v].value) = Len(papers)
           /\ \A k \in 1..Len(analyzed_papers) :
                 ~script[k].ok
                 => analyzed_papers[k].analysis = "Error: " \o script[k].reason

\* C3: in a finished batch over well-formed papers, every paper the backend
\* succeeded for has an output entry whose analysis is the backend's text
\* verbatim, whatever the backend did for the other papers.
C3_SuccessVerbatim ==
    \A v \in Variants :
        (op = Batch /\ ret[v] # NoResult /\ AllWellFormed)
        => \A k \in 1..Len(calls[v]) :
              script[k].ok
              => /\ ret[v].status = "returned"
                 /\ ret[v].value[k].analysis = script[k].text

\* C4: a malformed paper does not abort the batch: when no backend call of
\* the batch failed, the batch returns a list with one entry per input paper,
\* whatever keys the papers lack.
C4_MalformedPaperIsolated ==
    \A v \in Variants :
        (/\ op = Batch
         /\ ret[v] # NoResult
         /\ \A j \in 1..Len(calls[v]) : script[j].ok)
        => /\ ret[v].status = "returned"
           /\ Len(ret[v].value) = Len(papers)

Prompts(cs) == [k \in 1..Len(cs) |-> cs[k].prompt]

SameResult(a, b) ==
    /\ a.status = b.status
    /\ a.status = "returned" => a.value = b.value
    /\ a.status = "raised" => a.exc = b.exc

\* C5: run on the same well-formed papers and kind with the same backend
\* answers, the two analyzers send the same prompts and return or raise the
\* same thing, in analyze_paper, batch_analyze_papers and compare_papers.
C5_VariantsAgree ==
    (ret["claude"] # NoResult /\ ret["gemini"] # NoResult /\ AllWellFormed)
    => /\ Prompts(calls["claude"]) = Prompts(calls["gemini"])
       /\ SameResult(ret["claude"], ret["gemini"])


Compare == "compare_papers"

Analyze == "analyze_paper"

MultiPaper == {"extract_key_concepts", "generate_research_questions"}

InsufficientInput == ValueError("Need at least 2 papers to compare")

HasKeys(keys) == \A k \in 1..Len(papers) : keys \subseteq DOMAIN papers[k]

\* what a method that makes one backend call comes to, given the answer
Outcome(o) == IF o.ok THEN Returned(o.text) ELSE Raised(ProviderError(o.reason))

\* C6: compare_papers given 0 or 1 papers raises the "need at least 2 papers"
\* error without having called the backend; given 2 or more paper records it
\* calls the backend exactly once and returns that call's text (or lets that
\* call's failure through).
C6_CompareNeedsTwo ==
    \A v \in Variants :
        op = Compare
        => IF Len(papers) < 2
           THEN /\ calls[v] = <<>>
                /\ ret[v] # NoResult => ret[v] = Raised(InsufficientInput)
           ELSE HasKeys({"title", "authors", "summary"})
                => /\ Len(calls[v]) <= 1
                   /\ ret[v] # NoResult
                      => /\ Len(calls[v]) = 1
                         /\ ret[v] = Outcome(script[1])

\* both analyzers refused to compare a single paper, no call made
C6_Witness ==
    /\ op = Compare
    /\ Len(papers) = 1
    /\ \A v \in Variants : ret[v] = Raised(InsufficientInput) /\ calls[v] = <<>>

\* C7 (as claimed): extract_key_concepts and generate_research_questions
\* given fewer than 2 papers fail with the insufficient-input error.
C7_MultiPaperNeedsTwo ==
    (/\ op \in MultiPaper
     /\ Len(papers) < 2
     /\ HasKeys({"title", "summary"})
     /\ ret["gemini"] # NoResult)
    => /\ ret["gemini"].status = "raised"
       /\ ret["gemini"].exc.type = "ValueError"

\* C7 (amended): extract_key_concepts and generate_research_questions never
\* fail with the insufficient-input error, whatever the number of papers, none
\* and one included: given paper records they call the backend exactly once
\* and return that call's text (or let that call's failure through).
C7_NoPaperCountCheck ==
    op \in MultiPaper
    => /\ ret["gemini"].status = "raised" => ret["gemini"].exc.type # "ValueError"
       /\ HasKeys({"title", "summary"})
          => /\ Len(calls["gemini"]) <= 1
             /\ ret["gemini"] # NoResult
                => /\ Len(calls["gemini"]) = 1
                   /\ ret["gemini"] = Outcome(script[1])

\* extract_key_concepts returned a text for an empty list of papers
C7_Witness ==
    /\ op = "extract_key_concepts"
    /\ papers = <<>>
    /\ ret["gemini"].status = "returned"

KnownTypes == {"summary", "key_findings", "methodology", "critique"}

PaperContent(v, p) ==
    IF v = "claude" THEN ArxivAnalyzer_paper_content(p)
    ELSE ArxivAnalyzerGemini_paper_content(p)

Templates(v) ==
    IF v = "claude" THEN ArxivAnalyzer_prompts ELSE ArxivAnalyzerGemini_prompts

\* the instruction line when the custom instruction counts as `supplied`
Instruction(v, supplied) ==
    IF supplied THEN custom_prompt[1]
    ELSE IF analysis_type \in KnownTypes THEN Templates(v)[analysis_type]
    ELSE Templates(v)["summary"]

\* analyze_paper of variant v is past the construction of its prompt
PromptBuilt(v) == ret[v] # NoResult \/ (cur = v /\ pc = "call")

\* C8 (as claimed): the prompt analyze_paper sends for a paper record ends
\* with the custom instruction whenever one is passed, the empty string
\* included; otherwise with the template of the kind, the summary template
\* for an unknown kind; building it never fails.
C8_CustomAlwaysWins ==
    \A v \in Variants :
        (op = Analyze /\ WellFormed(papers[1]) /\ PromptBuilt(v))
        => /\ Len(calls[v]) = 1
           /\ calls[v][1].prompt
                 = PaperContent(v, papers[1]) \o "\n\n"
                   \o Instruction(v, custom_prompt # None)

\* C8 (amended): the prompt analyze_paper sends for a paper record ends with
\* the custom instruction whenever a non-empty one is passed; when none is
\* passed, or the empty string is, with the template of the kind, the summary
\* template for an unknown kind; building it never fails.
C8_NonEmptyCustomWins ==
    \A v \in Variants :
        (op = Analyze /\ WellFormed(papers[1]) /\ PromptBuilt(v))
        => /\ Len(calls[v]) = 1
           /\ calls[v][1].prompt
                 = PaperContent(v, papers[1]) \o "\n\n"
                   \o Instruction(v, custom_prompt \notin {None, Some("")})

\* an empty custom instruction and an unknown kind: the prompt went out
C8_Witness ==
    /\ op = Analyze
    /\ custom_prompt = Some("")
    /\ analysis_type \notin KnownTypes
    /\ WellFormed(papers[1])
    /\ \E v \in Variants : Len(calls[v]) = 1

\* C9: analyze_paper calls the backend at most once; run on a paper record it
\* calls it exactly once, returns the answer's text unchanged, and on a
\* failure raises the failure with its reason, without a second call.
C9_AnalyzeCallsOnce ==
    \A v \in Variants :
        op = Analyze
        => /\ Len(calls[v]) <= 1
           /\ (ret[v] # NoResult /\ WellFormed(papers[1]))
              => /\ Len(calls[v]) = 1
                 /\ ret[v] = Outcome(script[1])

\* the backend failed and analyze_paper raised its reason after one call
C9_Witness ==
    \E v \in Variants :
        /\ op = Analyze
        /\ Len(calls[v]) = 1
        /\ ret[v] = Raised(ProviderError("quota exceeded"))

\* C10: an analyzer exists exactly when its constructor found a non-empty
\* credential in its argument or the environment; a constructor that raised
\* left no analyzer; methods run only on an analyzer that exists; and once an
\* analyzer exists no step changes its credential.
C10_CredentialAtConstruction ==
    /\ [](\A v \in Variants :
             /\ constructed[v] <=> Truthy(api_key[v])
             /\ ctor_error[v] # None => ~constructed[v]
             /\ cur = v => constructed[v])
    /\ [][\A v \in Variants :
             constructed[v] => (constructed'[v] /\ api_key'[v] = api_key[v])]_vars

\* one constructor raised, the other analyzer ran a method to its end
C10_Witness ==
    /\ ctor_error["claude"] # None
    /\ ~constructed["claude"]
    /\ constructed["gemini"]
    /\ cur = "gemini"
    /\ pc = "done"


\* the prompts of the calls a batch of variant v owes for the first n papers,
\* in input order: one per paper whose prompt can be built
RECURSIVE BatchPrompts(_, _)
BatchPrompts(v, n) ==
    IF n = 0 THEN <<>>
    ELSE IF WellFormed(papers[n])
    THEN Append(BatchPrompts(v, n - 1),
                PaperContent(v, papers[n]) \o "\n\n" \o Instruction(v, FALSE))
    ELSE BatchPrompts(v, n - 1)

\* C11: batch_analyze_papers calls the backend strictly sequentially in input
\* order: at most one call is in flight, and only while the method is blocked
\* in it; a call starts only when none is in flight; with i papers finished
\* the calls made are those of the first i papers (plus the one in flight for
\* paper i+1), in input order; and a run that returns has made exactly one
\* call per paper record.
C11_SequentialCalls ==
    /\ [](op = Batch
          => /\ Len(inflight) <= 1
             /\ pc = "call" <=> Len(inflight) = 1
             /\ \A v \in Variants :
                   /\ (cur = v /\ pc \in {"run", "call"})
                      => Prompts(calls[v])
                            = BatchPrompts(v, IF pc = "call" THEN i + 1 ELSE i)
                   /\ ret[v].status = "returned"
                      => /\ Prompts(calls[v]) = BatchPrompts(v, Len(papers))
                         /\ AllWellFormed => Len(calls[v]) = Len(papers))
    /\ [][\A v \in Variants :
             (op = Batch /\ op' = Batch /\ calls'[v] # calls[v])
             => /\ inflight = <<>>
                /\ inflight' = <<calls'[v][Len(calls'[v])]>>
                /\ Len(calls'[v]) = Len(calls[v]) + 1]_vars

\* a batch over three paper records, the first two different, has returned
\* after three calls, one of which failed
C11_Witness ==
    /\ op = Batch
    /\ cur = "gemini"
    /\ ret["gemini"].status = "returned"
    /\ Len(papers) = 3
    /\ AllWellFormed
    /\ papers[1] # papers[2]
    /\ Len(calls["gemini"]) = 3
    /\ \E k \in 1..3 : ~script[k].ok
    /\ inflight = <<>>


\* C12: batch_analyze_papers leaves the caller's records as they were, whether
\* the backend succeeds or fails: no step of a batch changes the input list;
\* every output entry is its input record with the analysis field set, and
\* for paper records that field is exactly the backend's text or exactly
\* "Error: " and the reason, whatever analysis the input record carried.
C12_InputsUnchanged ==
    /\ [](op = Batch
          => \A k \in 1..Len(analyzed_papers) :
                /\ analyzed_papers[k]
                      = WithAnalysis(papers[k], analyzed_papers[k].analysis)
                /\ AllWellFormed
                   => analyzed_papers[k].analysis
                         = IF script[k].ok THEN script[k].text
                           ELSE "Error: " \o script[k].reason)
    /\ [][(op = Batch /\ op' = Batch) => papers' = papers]_vars

\* a finished batch: the record that carried an analysis still carries the old
\* one and its copy the new text; the record that carried none still has none
\* and its copy the error text
C12_Witness ==
    /\ op = Batch
    /\ pc = "done"
    /\ papers = <<PaperB, PaperA>>
    /\ papers[1].analysis = "old analysis"
    /\ "analysis" \notin DOMAIN papers[2]
    /\ Len(analyzed_papers) = 2
    /\ analyzed_papers[1].analysis = "T1"
    /\ analyzed_papers[2].analysis = "Error: quota exceeded"

====
